---------------------------- MODULE Spec2Model ----------------------------
(***************************************************************************)
(* Model of the resilient service-client pattern of                        *)
(* examples/level-02-features/04-service-integration/solution/main.py:     *)
(* the CircuitBreaker, the retry_with_backoff decorator and the            *)
(* UserServiceClient.get_user call that composes them.                     *)
(*                                                                         *)
(* Time is counted in whole seconds.  The specifications share the         *)
(* definitions below:                                                      *)
(*   Spec           a CircuitBreaker driven directly through call(func)    *)
(*   SpecRetry      retry_with_backoff(config, retryable)(func), any func  *)
(*   SpecRetryFair  SpecRetry with the wrapper's thread kept running       *)
(*   SpecClient     UserServiceClient.get_user over an HTTP endpoint       *)
(*   SpecNotify     NotificationServiceClient.send_notification            *)
(*   SpecRace       two threads calling one CircuitBreaker                 *)
(* and of the ShoppingCart of                                              *)
(* examples/level-01-foundation/03-data-structure/solution/main.py         *)
(* (SpecCart, SpecCartItems), the UserAuthenticator of 04-testing         *)
(* (SpecAuth), the user-management API of 01-api-endpoint (SpecApi) and    *)
(* the OrderProcessor of 07-logging (SpecOrder), each described where it   *)
(* is defined.                                                             *)
(***************************************************************************)
EXTENDS Integers, Sequences, FiniteSets, TLC

VARIABLES
    \* CircuitBreaker (main.py 114-119)
    config,             \* CircuitBreakerConfig of the breaker
    state,              \* CircuitBreakerState
    failure_count,
    success_count,
    last_failure_time,  \* None or the time.time() of the last failure
    \* environment and observation of the breaker
    now,                \* time.time()
    func_calls,         \* number of times the wrapped func has been invoked
    hist,               \* one entry per CircuitBreaker.call made so far
    last,               \* the most recent CircuitBreaker.call, in detail
    \* retry_with_backoff.wrapper (main.py 196-217)
    retry_config,       \* the RetryConfig the decorator was given
    retryable,          \* the decorator's retryable_exceptions
    pc,                 \* position of the wrapper
    attempt,            \* loop variable of the wrapper
    delay,              \* local variable of the wrapper
    outcomes,           \* what each invocation of func did, in order
    sleeps,             \* the argument of each time.sleep, in order
    error,              \* the exception the wrapper raised, or NoError
    \* UserServiceClient (main.py 227-294)
    client_retry_config,\* self.retry_config of the client
    responses,          \* what each requests.get of the current call met
    calls_made,         \* number of get_user calls started
    entry,              \* the breaker and clock when the current call began
    \* NotificationServiceClient.send_notification (main.py 297-357)
    request,            \* the arguments of the current send_notification
    failed_calls,       \* consecutive failed calls before the current one
    \* two threads on one CircuitBreaker (main.py 121-178)
    thread_pc,          \* where each thread is inside call()
    thread_read,        \* the failure_count a thread loaded for its += 1
    race_calls,         \* calls of call() begun so far, over both threads
    race_failures,      \* wrapped operations that have raised so far
    overlapped,         \* some call began while another was in progress
    \* ShoppingCart (03-data-structure/solution/main.py)
    items,              \* self._items: a list of {"item", "price"} dicts
    cart_last,          \* the most recent operation on the cart, in detail
    \* UserAuthenticator (04-testing/solution/main.py)
    users,              \* self.users: username -> password, email, active
    auth_pending,       \* the arguments of a register_user that just succeeded
    auth_last,          \* the most recent operation on the authenticator
    \* UserStore and its endpoints (01-api-endpoint/solution/main.py)
    store_users,        \* user_store._users: a list of UserResponse
    next_id,            \* user_store._next_id
    assigned,           \* every id a created user has been given
    api_last,           \* the most recent request and its response
    \* OrderProcessor (07-logging/solution/main.py)
    inventory,          \* self.inventory: item_id -> stock
    orders,             \* self.orders: a list of order records
    order_last          \* the most recent process_order, in detail

breaker_vars == <<config, state, failure_count, success_count,
                  last_failure_time, now, func_calls, hist, last>>
retry_vars == <<retry_config, retryable, pc, attempt, delay, outcomes,
                sleeps, error>>
client_vars == <<client_retry_config, responses, calls_made, entry>>
notify_vars == <<request, failed_calls>>
race_vars == <<thread_pc, thread_read, race_calls, race_failures, overlapped>>
cart_vars == <<items, cart_last>>
auth_vars == <<users, auth_pending, auth_last>>
api_vars == <<store_users, next_id, assigned, api_last>>
order_vars == <<inventory, orders, order_last>>
later_vars == <<auth_vars, api_vars, order_vars>>
other_vars == <<notify_vars, race_vars, cart_vars, later_vars>>
vars == <<breaker_vars, retry_vars, client_vars, other_vars>>

-----------------------------------------------------------------------------
(* Bounds of the model *)

MaxThreshold == 3       \* failure_threshold, success_threshold in 1..MaxThreshold
MaxTimeout == 2         \* timeout_seconds in 0..MaxTimeout
MaxDuration == 1        \* a wrapped func runs for 0..MaxDuration seconds
MaxCalls == 5           \* CircuitBreaker.call invocations in one behaviour
MaxTime == 5            \* the clock stops advancing here
MaxAttempts == 7        \* RetryConfig.max_attempts in 0..MaxAttempts
MaxInitialDelay == 2    \* RetryConfig.initial_delay in 1..MaxInitialDelay
MaxMaxDelay == 10       \* RetryConfig.max_delay in 1..MaxMaxDelay
MaxBase == 3            \* RetryConfig.exponential_base in 2..MaxBase
MaxClientCalls == 2     \* get_user calls in one behaviour
MaxGap == 2             \* seconds between two get_user calls, 0..MaxGap
MaxClientAttempts == 1  \* the client's retry_config.max_attempts in 1..MaxClientAttempts

-----------------------------------------------------------------------------
(* CircuitBreakerState, main.py 49-53 *)

CLOSED == "closed"
OPEN == "open"
HALF_OPEN == "half_open"

\* Optional[float] = None of last_failure_time; times are >= 0
None == -1

\* CircuitBreakerConfig, main.py 65-70, with the ranges of the data model
CircuitBreakerConfigs ==
    [failure_threshold : 1..MaxThreshold,
     success_threshold : 1..MaxThreshold,
     timeout_seconds : 0..MaxTimeout]

\* the breaker object as a value
Breaker ==
    [state |-> state, failure_count |-> failure_count,
     success_count |-> success_count, last_failure_time |-> last_failure_time]

\* CircuitBreaker.__init__
NewBreaker ==
    [state |-> CLOSED, failure_count |-> 0, success_count |-> 0,
     last_failure_time |-> None]

\* mutant: the cooldown is compared with > instead of >=
ShouldAttemptResetStrict(b, cfg, t) ==
    IF b.last_failure_time = None THEN FALSE
    ELSE t - b.last_failure_time > cfg.timeout_seconds

\* mutant: an Open breaker always lets the next call through
ShouldAttemptResetAlways(b, cfg, t) ==
    b.last_failure_time # None

\* CircuitBreaker._should_attempt_reset at time t
ShouldAttemptReset(b, cfg, t) ==
    IF b.last_failure_time = None THEN FALSE
    ELSE t - b.last_failure_time >= cfg.timeout_seconds

\* mutant: a success in HalfOpen also clears failure_count
OnSuccessClearsInHalfOpen(b, cfg) ==
    IF b.state = HALF_OPEN
    THEN IF b.success_count + 1 >= cfg.success_threshold
         THEN [b EXCEPT !.success_count = b.success_count + 1,
                        !.state = CLOSED, !.failure_count = 0]
         ELSE [b EXCEPT !.success_count = b.success_count + 1,
                        !.failure_count = 0]
    ELSE [b EXCEPT !.failure_count = 0]

\* mutant: a success in Closed leaves failure_count alone
OnSuccessKeepsCount(b, cfg) ==
    IF b.state = HALF_OPEN
    THEN IF b.success_count + 1 >= cfg.success_threshold
         THEN [b EXCEPT !.success_count = b.success_count + 1,
                        !.state = CLOSED, !.failure_count = 0]
         ELSE [b EXCEPT !.success_count = b.success_count + 1]
    ELSE b

\* mutant: the breaker closes one success late
OnSuccessLate(b, cfg) ==
    IF b.state = HALF_OPEN
    THEN IF b.success_count + 1 > cfg.success_threshold
         THEN [b EXCEPT !.success_count = b.success_count + 1,
                        !.state = CLOSED, !.failure_count = 0]
         ELSE [b EXCEPT !.success_count = b.success_count + 1]
    ELSE [b EXCEPT !.failure_count = 0]

\* mutant: the breaker closes without clearing failure_count
OnSuccessClosesKeepingCount(b, cfg) ==
    IF b.state = HALF_OPEN
    THEN IF b.success_count + 1 >= cfg.success_threshold
         THEN [b EXCEPT !.success_count = b.success_count + 1,
                        !.state = CLOSED]
         ELSE [b EXCEPT !.success_count = b.success_count + 1]
    ELSE [b EXCEPT !.failure_count = 0]

\* CircuitBreaker._on_success
OnSuccess(b, cfg) ==
    IF b.state = HALF_OPEN
    THEN IF b.success_count + 1 >= cfg.success_threshold
         THEN [b EXCEPT !.success_count = b.success_count + 1,
                        !.state = CLOSED, !.failure_count = 0]
         ELSE [b EXCEPT !.success_count = b.success_count + 1]
    ELSE [b EXCEPT !.failure_count = 0]

\* mutant: the breaker opens one failure late
OnFailureLate(b, cfg, t) ==
    LET n == b.failure_count + 1
    IN  [b EXCEPT !.failure_count = n,
                  !.last_failure_time = t,
                  !.state = IF n > cfg.failure_threshold THEN OPEN ELSE @]

\* mutant: a failure of the HalfOpen probe reopens without being counted
OnFailureSkipsProbe(b, cfg, t) ==
    LET n == IF b.state = HALF_OPEN THEN b.failure_count
             ELSE b.failure_count + 1
    IN  [b EXCEPT !.failure_count = n,
                  !.last_failure_time = t,
                  !.state = IF n >= cfg.failure_threshold THEN OPEN ELSE @]

\* mutant: the time of the failure is not recorded once the breaker is open
OnFailureNoStamp(b, cfg, t) ==
    LET n == b.failure_count + 1
    IN  [b EXCEPT !.failure_count = n,
                  !.last_failure_time = IF b.state = CLOSED THEN t ELSE @,
                  !.state = IF n >= cfg.failure_threshold THEN OPEN ELSE @]

\* mutant: a failure in HalfOpen sets failure_count back to the threshold
OnFailureResetsToThreshold(b, cfg, t) ==
    LET n == IF b.state = HALF_OPEN THEN cfg.failure_threshold
             ELSE b.failure_count + 1
    IN  [b EXCEPT !.failure_count = n,
                  !.last_failure_time = t,
                  !.state = IF n >= cfg.failure_threshold THEN OPEN ELSE @]

\* CircuitBreaker._on_failure at time t
OnFailure(b, cfg, t) ==
    LET n == b.failure_count + 1
    IN  [b EXCEPT !.failure_count = n,
                  !.last_failure_time = t,
                  !.state = IF n >= cfg.failure_threshold THEN OPEN ELSE @]

\* what func() does when it is invoked: "ok" or the exception it raises
NoError == "none"

\* mutant: a rejected call restarts the cooldown
BreakerCallRejectStamps(b, cfg, t, d, outcome) ==
    LET reset == b.state = OPEN /\ ShouldAttemptReset(b, cfg, t)
        mid == IF reset
               THEN [b EXCEPT !.state = HALF_OPEN, !.success_count = 0]
               ELSE b
    IN  IF b.state = OPEN /\ ~reset
        THEN [cb |-> [b EXCEPT !.last_failure_time = t], mid |-> b,
              invoked |-> FALSE, probe |-> FALSE,
              kind |-> "rejected", raised |-> "CircuitBreakerOpenError"]
        ELSE IF outcome = "ok"
        THEN [cb |-> OnSuccess(mid, cfg), mid |-> mid, invoked |-> TRUE,
              probe |-> reset, kind |-> "ok", raised |-> NoError]
        ELSE [cb |-> OnFailure(mid, cfg, t + d), mid |-> mid,
              invoked |-> TRUE, probe |-> reset, kind |-> "fail",
              raised |-> outcome]

\* CircuitBreaker.call(func) entered at time t; func, if invoked, runs for d
\* seconds and ends as `outcome`.  The result holds the breaker afterwards
\* (cb), the breaker as it was when func was invoked (mid), whether func was
\* invoked and the exception that reaches the caller.
BreakerCall(b, cfg, t, d, outcome) ==
    LET reset == b.state = OPEN /\ ShouldAttemptReset(b, cfg, t)
        mid == IF reset
               THEN [b EXCEPT !.state = HALF_OPEN, !.success_count = 0]
               ELSE b
    IN  IF b.state = OPEN /\ ~reset
        THEN [cb |-> b, mid |-> b, invoked |-> FALSE, probe |-> FALSE,
              kind |-> "rejected", raised |-> "CircuitBreakerOpenError"]
        ELSE IF outcome = "ok"
        THEN [cb |-> OnSuccess(mid, cfg), mid |-> mid, invoked |-> TRUE,
              probe |-> reset, kind |-> "ok", raised |-> NoError]
        ELSE [cb |-> OnFailure(mid, cfg, t + d), mid |-> mid,
              invoked |-> TRUE, probe |-> reset, kind |-> "fail",
              raised |-> outcome]

-----------------------------------------------------------------------------
(* Spec: a breaker used directly *)

\* the outcomes of an arbitrary wrapped func
FuncOutcomes == {"ok", "Exception"}

RetryIdle ==
    /\ retry_config = [max_attempts |-> 0, initial_delay |-> 0,
                       max_delay |-> 0, exponential_base |-> 0]
    /\ retryable = {}
    /\ pc = "unused"
    /\ attempt = 0
    /\ delay = 0
    /\ outcomes = <<>>
    /\ sleeps = <<>>
    /\ error = NoError

ClientIdle ==
    /\ client_retry_config = [max_attempts |-> 0, initial_delay |-> 0,
                              max_delay |-> 0, exponential_base |-> 0]
    /\ responses = <<>>
    /\ calls_made = 0
    /\ entry = [cb |-> NewBreaker, at |-> 0]

\* the components a specification does not run stay as constructed
NotifyIdle ==
    /\ request = [user_id |-> [type |-> "int", text |-> "0"],
                  message |-> [type |-> "str", text |-> ""]]
    /\ failed_calls = 0

RaceIdle ==
    /\ thread_pc = <<>>
    /\ thread_read = <<>>
    /\ race_calls = 0
    /\ race_failures = 0
    /\ overlapped = FALSE

CartIdle ==
    /\ items = <<>>
    /\ cart_last = [op |-> "none"]

AuthIdle ==
    /\ users = <<>>
    /\ auth_pending = [op |-> "none"]
    /\ auth_last = [op |-> "none"]

ApiIdle ==
    /\ store_users = <<>>
    /\ next_id = 1
    /\ assigned = {}
    /\ api_last = [op |-> "none"]

OrderIdle ==
    /\ inventory = <<>>
    /\ orders = <<>>
    /\ order_last = [op |-> "none"]

LaterIdle == AuthIdle /\ ApiIdle /\ OrderIdle

OthersIdle == NotifyIdle /\ RaceIdle /\ CartIdle /\ LaterIdle

BreakerInit(cfgs) ==
    /\ config \in cfgs
    /\ state = NewBreaker.state
    /\ failure_count = NewBreaker.failure_count
    /\ success_count = NewBreaker.success_count
    /\ last_failure_time = NewBreaker.last_failure_time
    /\ now = 0
    /\ func_calls = 0
    /\ hist = <<>>
    /\ last = [kind |-> "none", invoked |-> FALSE, pre |-> NewBreaker,
               mid |-> NewBreaker, at |-> 0, raised |-> NoError,
               func_calls |-> 0, outcome |-> NoError, ended |-> 0]

Init ==
    /\ BreakerInit(CircuitBreakerConfigs)
    /\ RetryIdle
    /\ ClientIdle
    /\ OthersIdle

\* the effect of one CircuitBreaker.call on the breaker and the clock
ApplyCall(r, d) ==
    /\ state' = r.cb.state
    /\ failure_count' = r.cb.failure_count
    /\ success_count' = r.cb.success_count
    /\ last_failure_time' = r.cb.last_failure_time
    /\ now' = now + (IF r.invoked THEN d ELSE 0)
    /\ UNCHANGED config

\* breaker.call(func) by the owner of the breaker
Call ==
    /\ Len(hist) < MaxCalls
    /\ \E outcome \in FuncOutcomes, d \in 0..MaxDuration :
          /\ now + d <= MaxTime
          /\ LET r == BreakerCall(Breaker, config, now, d, outcome)
             IN  /\ ApplyCall(r, d)
                 /\ func_calls' = func_calls + (IF r.invoked THEN 1 ELSE 0)
                 /\ hist' = Append(hist, [kind |-> r.kind, probe |-> r.probe])
                 /\ last' = [kind |-> r.kind, invoked |-> r.invoked,
                             pre |-> Breaker, mid |-> r.mid, at |-> now,
                             raised |-> r.raised, func_calls |-> func_calls,
                             outcome |-> IF r.invoked THEN outcome
                                         ELSE NoError,
                             ended |-> IF r.invoked THEN now + d ELSE now]
    /\ UNCHANGED <<retry_vars, client_vars, other_vars>>

\* time passes between calls
Tick ==
    /\ now < MaxTime
    /\ now' = now + 1
    /\ UNCHANGED <<config, state, failure_count, success_count,
                   last_failure_time, func_calls, hist, last>>
    /\ UNCHANGED <<retry_vars, client_vars, other_vars>>

Next == Call \/ Tick

Spec == Init /\ [][Next]_vars

-----------------------------------------------------------------------------
(* retry_with_backoff, main.py 185-220 *)

\* RetryConfig, main.py 56-62
RetryConfigs ==
    [max_attempts : 0..MaxAttempts,
     initial_delay : 1..MaxInitialDelay,
     max_delay : 1..MaxMaxDelay,
     exponential_base : 2..MaxBase]

\* RetryConfig(): the defaults of the dataclass
DefaultRetryConfig ==
    [max_attempts |-> 3, initial_delay |-> 1, max_delay |-> 10,
     exponential_base |-> 2]

\* the exception classes of main.py 77-99 and their base classes
Bases(exc) ==
    CASE exc = "ServiceTimeoutError" -> {exc, "ServiceError", "Exception"}
      [] exc = "ServiceConnectionError" -> {exc, "ServiceError", "Exception"}
      [] exc = "ServiceValidationError" -> {exc, "ServiceError", "Exception"}
      [] exc = "CircuitBreakerOpenError" -> {exc, "ServiceError", "Exception"}
      [] exc = "ServiceError" -> {exc, "Exception"}
      [] OTHER -> {exc, "Exception"}

\* `except classes`: exc is an instance of one of the classes
Caught(exc, classes) == Bases(exc) \cap classes # {}

\* the default retryable_exceptions of the decorator
DefaultRetryable == {"ServiceError"}

\* mutant: the clients' decorators keep the default retryable_exceptions
RetryableAllServiceErrors == {"ServiceError"}

\* the retryable_exceptions every client passes
ClientRetryable == {"ServiceTimeoutError", "ServiceConnectionError"}

Min(a, b) == IF a <= b THEN a ELSE b

\* mutant: the backoff is not capped
NextDelayUncapped(d, cfg) == d * cfg.exponential_base

\* main.py 215: the delay of the sleep after the next one
NextDelay(d, cfg) == Min(d * cfg.exponential_base, cfg.max_delay)

\* mutant: the last attempt is recognised one attempt late
AfterTryOffByOne(cfg, classes, att, outcome) ==
    IF outcome = "ok" THEN [pc |-> "returned", error |-> NoError]
    ELSE IF Caught(outcome, classes)
    THEN IF att = cfg.max_attempts
         THEN [pc |-> "raised", error |-> outcome]
         ELSE [pc |-> "sleep", error |-> NoError]
    ELSE [pc |-> "raised", error |-> outcome]

\* mutant: every exception is retried
AfterTryRetriesAll(cfg, classes, att, outcome) ==
    IF outcome = "ok" THEN [pc |-> "returned", error |-> NoError]
    ELSE IF att = cfg.max_attempts - 1
         THEN [pc |-> "raised", error |-> outcome]
         ELSE [pc |-> "sleep", error |-> NoError]

\* main.py 201-208: where the wrapper goes after func ended as `outcome` in
\* iteration att of the loop
AfterTry(cfg, classes, att, outcome) ==
    IF outcome = "ok" THEN [pc |-> "returned", error |-> NoError]
    ELSE IF Caught(outcome, classes)
    THEN IF att = cfg.max_attempts - 1
         THEN [pc |-> "raised", error |-> outcome]
         ELSE [pc |-> "sleep", error |-> NoError]
    ELSE [pc |-> "raised", error |-> outcome]

\* main.py 198: a call of the decorated function begins
EnterEffect ==
    /\ delay' = retry_config.initial_delay
    /\ attempt' = 0
    /\ outcomes' = <<>>
    /\ sleeps' = <<>>
    /\ error' = NoError
    /\ pc' = "loop"
    /\ UNCHANGED <<retry_config, retryable>>

\* main.py 200-208: one iteration invoked func, which ended as `outcome`
TryEffect(outcome) ==
    LET r == AfterTry(retry_config, retryable, attempt, outcome)
    IN  /\ outcomes' = Append(outcomes, outcome)
        /\ pc' = r.pc
        /\ error' = r.error
        /\ UNCHANGED <<retry_config, retryable, attempt, delay, sleeps>>

\* main.py 214-215 and the loop's increment
SleepEffect ==
    /\ sleeps' = Append(sleeps, delay)
    /\ delay' = NextDelay(delay, retry_config)
    /\ attempt' = attempt + 1
    /\ pc' = "loop"
    /\ UNCHANGED <<retry_config, retryable, outcomes, error>>

\* main.py 217: the loop ended without returning or raising
ExhaustedEffect ==
    /\ pc' = "raised"
    /\ error' = "ServiceError"
    /\ UNCHANGED <<retry_config, retryable, attempt, delay, outcomes, sleeps>>

-----------------------------------------------------------------------------
(* SpecRetry: one call of a function decorated with retry_with_backoff *)

\* what the decorated func may do on one invocation
FuncResults == {"ok", "ServiceTimeoutError", "ServiceError", "Exception"}

BreakerIdle ==
    /\ BreakerInit({[failure_threshold |-> 5, success_threshold |-> 2,
                     timeout_seconds |-> 60]})

RetryInit ==
    /\ retry_config \in RetryConfigs
    /\ retryable \in {DefaultRetryable, ClientRetryable}
    /\ pc = "idle"
    /\ attempt = 0
    /\ delay = 0
    /\ outcomes = <<>>
    /\ sleeps = <<>>
    /\ error = NoError
    /\ BreakerIdle
    /\ ClientIdle
    /\ OthersIdle

WrapperEnter ==
    /\ pc = "idle"
    /\ EnterEffect
    /\ UNCHANGED <<breaker_vars, client_vars, other_vars>>

WrapperTry ==
    /\ pc = "loop"
    /\ attempt < retry_config.max_attempts
    /\ \E outcome \in FuncResults : TryEffect(outcome)
    /\ UNCHANGED <<breaker_vars, client_vars, other_vars>>

WrapperSleep ==
    /\ pc = "sleep"
    /\ SleepEffect
    /\ UNCHANGED <<breaker_vars, client_vars, other_vars>>

WrapperExhausted ==
    /\ pc = "loop"
    /\ attempt >= retry_config.max_attempts
    /\ ExhaustedEffect
    /\ UNCHANGED <<breaker_vars, client_vars, other_vars>>

RetryNext == WrapperEnter \/ WrapperTry \/ WrapperSleep \/ WrapperExhausted

SpecRetry == RetryInit /\ [][RetryNext]_vars

\* the wrapper runs on its caller's thread, which keeps running
SpecRetryFair == SpecRetry /\ WF_vars(RetryNext)

-----------------------------------------------------------------------------
(* UserServiceClient.get_user, main.py 227-294 *)

\* what one requests.get and the handling of its response can meet
HttpOutcomes ==
    {"200_valid",          \* 2xx, body matches the User schema
     "200_invalid",        \* 2xx, JSON object that fails the User schema
     "200_not_json",       \* 2xx, body that response.json() cannot parse
     "timeout",            \* requests.Timeout
     "connection_error",   \* requests.ConnectionError
     "404",                \* raise_for_status: HTTPError with status 404
     "500",                \* raise_for_status: HTTPError, any other status
     "request_exception"}  \* another requests.RequestException

\* mutant: the schema check is not wrapped, pydantic's error leaves as it is
MakeRequestRawValidation(resp) ==
    CASE resp = "200_valid" -> "ok"
      [] resp = "200_invalid" -> "ValidationError"
      [] resp = "200_not_json" -> "JSONDecodeError"
      [] resp = "timeout" -> "ServiceTimeoutError"
      [] resp = "connection_error" -> "ServiceConnectionError"
      [] resp = "404" -> "ServiceError"
      [] resp = "500" -> "ServiceError"
      [] resp = "request_exception" -> "RequestException"

\* mutant: a timeout is reported as a plain ServiceError
MakeRequestTimeoutTerminal(resp) ==
    CASE resp = "200_valid" -> "ok"
      [] resp = "200_invalid" -> "ServiceValidationError"
      [] resp = "200_not_json" -> "JSONDecodeError"
      [] resp = "timeout" -> "ServiceError"
      [] resp = "connection_error" -> "ServiceConnectionError"
      [] resp = "404" -> "ServiceError"
      [] resp = "500" -> "ServiceError"
      [] resp = "request_exception" -> "RequestException"

\* get_user._make_request, main.py 270-292: "ok" (a User is returned) or the
\* exception that leaves _make_request
MakeRequest(resp) ==
    CASE resp = "200_valid" -> "ok"
      [] resp = "200_invalid" -> "ServiceValidationError"
      [] resp = "200_not_json" -> "JSONDecodeError"
      [] resp = "timeout" -> "ServiceTimeoutError"
      [] resp = "connection_error" -> "ServiceConnectionError"
      [] resp = "404" -> "ServiceError"
      [] resp = "500" -> "ServiceError"
      [] resp = "request_exception" -> "RequestException"

\* the retry_config a client may be constructed with (main.py 239, 244)
ClientRetryConfigs ==
    {[DefaultRetryConfig EXCEPT !.max_attempts = n] : n \in 1..MaxClientAttempts}

\* UserServiceClient.__init__; the decorator of get_user was built when the
\* class was defined, from RetryConfig() and the two retryable classes
\* (main.py 249-252)
ClientInit ==
    /\ BreakerInit(CircuitBreakerConfigs)
    /\ client_retry_config \in ClientRetryConfigs
    /\ retry_config = DefaultRetryConfig
    /\ retryable = ClientRetryable
    /\ pc = "idle"
    /\ attempt = 0
    /\ delay = 0
    /\ outcomes = <<>>
    /\ sleeps = <<>>
    /\ error = NoError
    /\ responses = <<>>
    /\ calls_made = 0
    /\ entry = [cb |-> NewBreaker, at |-> 0]
    /\ OthersIdle

\* client.get_user(user_id) is called, gap seconds after the client was
\* constructed or its previous call ended: the wrapper starts
GetUserEnter ==
    /\ pc \in {"idle", "returned", "raised"}
    /\ calls_made < MaxClientCalls
    /\ EnterEffect
    /\ calls_made' = calls_made + 1
    /\ responses' = <<>>
    /\ \E gap \in 0..MaxGap :
          /\ now' = now + gap
          /\ entry' = [cb |-> Breaker, at |-> now + gap]
    /\ UNCHANGED <<config, state, failure_count, success_count,
                   last_failure_time, func_calls, hist, last>>
    /\ UNCHANGED <<client_retry_config, other_vars>>

\* one iteration of the wrapper's loop runs the body of get_user:
\* self.circuit_breaker.call(_make_request), main.py 294.  A request ends
\* within the second it began in; the seconds of a call pass in its sleeps.
GetUserTry ==
    /\ pc = "loop"
    /\ attempt < retry_config.max_attempts
    /\ \E resp \in HttpOutcomes :
          LET r == BreakerCall(Breaker, config, now, 0, MakeRequest(resp))
          IN  /\ ApplyCall(r, 0)
              /\ TryEffect(IF r.raised = NoError THEN "ok" ELSE r.raised)
              /\ responses' = IF r.invoked THEN Append(responses, resp)
                              ELSE responses
    /\ UNCHANGED <<func_calls, hist, last, client_retry_config, calls_made,
                   entry, other_vars>>

\* time.sleep(delay) between two iterations
GetUserSleep ==
    /\ pc = "sleep"
    /\ SleepEffect
    /\ now' = now + delay
    /\ UNCHANGED <<config, state, failure_count, success_count,
                   last_failure_time, func_calls, hist, last>>
    /\ UNCHANGED <<client_vars, other_vars>>

\* main.py 217 is not reached here: RetryConfig() has max_attempts = 3
ClientNext == GetUserEnter \/ GetUserTry \/ GetUserSleep

SpecClient == ClientInit /\ [][ClientNext]_vars

-----------------------------------------------------------------------------
(* Properties of the breaker, checked under Spec *)

\* the first n calls of h all invoked func and func raised
AllFail(h, n) == \A i \in 1..n : h[i].kind = "fail"

\* the number of failing calls at the end of h
RECURSIVE TrailingFails(_)
TrailingFails(h) ==
    IF h = <<>> \/ h[Len(h)].kind # "fail" THEN 0
    ELSE 1 + TrailingFails(SubSeq(h, 1, Len(h) - 1))

\* the index of the latest call that moved the breaker Open -> HalfOpen, or 0
RECURSIVE LastProbe(_)
LastProbe(h) ==
    IF h = <<>> THEN 0
    ELSE IF h[Len(h)].probe THEN Len(h)
    ELSE LastProbe(SubSeq(h, 1, Len(h) - 1))

\* seconds between the last recorded failure and the entry of the latest call
Elapsed == last.at - last.pre.last_failure_time

\* the latest call found the breaker Open
LastFoundOpen ==
    /\ last.kind # "none"
    /\ last.pre.state = OPEN
    /\ last.pre.last_failure_time # None

\* the latest call was refused: CircuitBreakerOpenError, func not invoked
LastRejected ==
    /\ last.kind = "rejected"
    /\ last.raised = "CircuitBreakerOpenError"
    /\ ~last.invoked
    /\ func_calls = last.func_calls

\* C1: for every failure_threshold N >= 1, N failing calls on a fresh breaker
\* leave it Open, and the (N+1)th call, entered before timeout_seconds have
\* passed since the Nth failure, raises CircuitBreakerOpenError without
\* invoking func (func has been invoked N times in all).
C1_OpensAfterThreshold ==
    LET N == config.failure_threshold
    IN  /\ (Len(hist) = N /\ AllFail(hist, N)) => state = OPEN
        /\ (Len(hist) = N + 1 /\ AllFail(hist, N)
                /\ Elapsed < config.timeout_seconds)
           => (LastRejected /\ func_calls = N /\ state = OPEN)

C1_Witness ==
    /\ config.failure_threshold >= 2
    /\ Len(hist) = config.failure_threshold + 1
    /\ AllFail(hist, config.failure_threshold)
    /\ Elapsed < config.timeout_seconds
    /\ last.kind = "rejected"

\* C2: a call that finds the breaker Open less than timeout_seconds after
\* last_failure_time raises CircuitBreakerOpenError and does not invoke func.
C2_OpenRejects ==
    (LastFoundOpen /\ Elapsed < config.timeout_seconds) => LastRejected

C2_Witness ==
    /\ LastFoundOpen
    /\ Elapsed < config.timeout_seconds
    /\ Elapsed > 0
    /\ last.kind = "rejected"

\* C3: a call that finds the breaker Open at least timeout_seconds after
\* last_failure_time moves it to HalfOpen with success_count = 0 and then
\* invokes func.
C3_OpenProbes ==
    (LastFoundOpen /\ Elapsed >= config.timeout_seconds)
    => /\ last.invoked
       /\ func_calls = last.func_calls + 1
       /\ last.mid.state = HALF_OPEN
       /\ last.mid.success_count = 0

C3_Witness ==
    /\ LastFoundOpen
    /\ Elapsed = config.timeout_seconds
    /\ config.timeout_seconds > 0
    /\ last.pre.success_count > 0
    /\ last.invoked
    /\ last.mid.state = HALF_OPEN

\* C4: counting from the call that moved the breaker to HalfOpen, after
\* success_threshold successful calls in a row the breaker is Closed with
\* failure_count = 0, and after fewer it is still HalfOpen.
C4_HalfOpenCloses ==
    LET i == LastProbe(hist)
        n == Len(hist) - i + 1
    IN  (i > 0 /\ \A j \in i..Len(hist) : hist[j].kind = "ok")
        => IF n >= config.success_threshold
           THEN state = CLOSED /\ failure_count = 0
           ELSE state = HALF_OPEN

C4_Witness ==
    LET i == LastProbe(hist)
    IN  /\ i > 0
        /\ \A j \in i..Len(hist) : hist[j].kind = "ok"
        /\ config.success_threshold >= 2
        /\ Len(hist) - i + 1 = config.success_threshold
        /\ last.pre.state = HALF_OPEN
        /\ last.pre.failure_count > 0
        /\ state = CLOSED

\* C5: a failing call made in HalfOpen leaves the breaker Open, whatever the
\* thresholds and however many successes HalfOpen had already counted.
C5_HalfOpenFailureReopens ==
    (last.kind = "fail" /\ last.mid.state = HALF_OPEN) => state = OPEN

C5_Witness ==
    /\ last.kind = "fail"
    /\ last.pre.state = HALF_OPEN
    /\ last.pre.success_count >= 1
    /\ config.failure_threshold >= 2
    /\ state = OPEN

\* C6: a successful call in Closed sets failure_count to 0, and the breaker
\* goes from Closed to Open only at the end of failure_threshold failing
\* calls in a row.
C6_ClosedSuccessResets ==
    /\ (last.kind = "ok" /\ last.pre.state = CLOSED) => failure_count = 0
    /\ (last.kind = "fail" /\ last.pre.state = CLOSED /\ state = OPEN)
       => TrailingFails(hist) >= config.failure_threshold

C6_Witness ==
    /\ last.kind = "fail"
    /\ last.pre.state = CLOSED
    /\ state = OPEN
    /\ config.failure_threshold >= 2
    /\ \E j \in 1..Len(hist) : hist[j].kind = "ok"
    /\ LastProbe(hist) = 0

-----------------------------------------------------------------------------
(* Properties of retry_with_backoff, checked under SpecRetry(Fair) *)

\* every invocation of func so far raised an exception of the retryable set
AllRetryable == \A i \in 1..Len(outcomes) : Caught(outcomes[i], retryable)

Terminated == pc \in {"returned", "raised"}

C7_Counts ==
    LET N == retry_config.max_attempts
    IN  (N >= 1 /\ pc # "idle" /\ AllRetryable)
        => /\ Len(outcomes) <= N
           /\ Len(sleeps) <= N - 1
           /\ Len(outcomes) = N
              => (pc = "raised" /\ error = outcomes[N] /\ Len(sleeps) = N - 1)
           /\ Terminated => Len(outcomes) = N

\* C7: for every max_attempts N >= 1, when func raises a retryable error on
\* every invocation the wrapper invokes it exactly N times, sleeps exactly
\* N - 1 times and re-raises the Nth error with no sleep after it (N = 1: one
\* invocation, no sleep); and every call of the wrapper terminates.
C7_ExactlyNAttempts == [] C7_Counts /\ <> Terminated

C7_Witness ==
    /\ retry_config.max_attempts >= 3
    /\ AllRetryable
    /\ pc = "raised"
    /\ Len(outcomes) = retry_config.max_attempts
    /\ Len(sleeps) = retry_config.max_attempts - 1

\* the k-th delay of the sequence 1, 2, 4, 8, 10, 10, ...
ExampleDelay(k) == IF k = 1 THEN 1 ELSE IF k = 2 THEN 2 ELSE IF k = 3 THEN 4
                   ELSE IF k = 4 THEN 8 ELSE 10

IsExampleConfig ==
    /\ retry_config.initial_delay = 1
    /\ retry_config.exponential_base = 2
    /\ retry_config.max_delay = 10

\* C9: within one retry sequence the k-th sleep lasts delay_k, where
\* delay_1 = initial_delay and delay_{k+1} = min(delay_k * exponential_base,
\* max_delay); for initial_delay 1, base 2, max_delay 10 that is
\* 1, 2, 4, 8, 10, 10, ...
C9_BackoffSequence ==
    /\ Len(sleeps) >= 1 => sleeps[1] = retry_config.initial_delay
    /\ \A k \in 1..(Len(sleeps) - 1) :
          sleeps[k + 1] = Min(sleeps[k] * retry_config.exponential_base,
                              retry_config.max_delay)
    /\ IsExampleConfig => \A k \in 1..Len(sleeps) : sleeps[k] = ExampleDelay(k)

C9_Witness ==
    /\ IsExampleConfig
    /\ sleeps = <<1, 2, 4, 8, 10, 10>>

-----------------------------------------------------------------------------
(* Properties of UserServiceClient.get_user, checked under SpecClient *)

\* invocation i of the current call raised an error outside the retryable set
NonRetryableAt(i) ==
    /\ outcomes[i] # "ok"
    /\ ~Caught(outcomes[i], retryable)

\* the wrapper raised the error of invocation i at once: nothing was invoked
\* after it and no sleep followed it
RaisedAtOnce(i) ==
    /\ i = Len(outcomes)
    /\ pc = "raised"
    /\ error = outcomes[i]
    /\ Len(sleeps) = i - 1

\* C8 as stated: an error outside the retryable set is raised after the one
\* invocation that produced it, with no backoff sleep and no retry, and the
\* error of an HTTP 404 reaches the caller as NotFoundError.
C8_AsStated ==
    /\ \A i \in 1..Len(outcomes) : NonRetryableAt(i) => RaisedAtOnce(i)
    /\ \A j \in 1..Len(responses) :
          responses[j] = "404"
          => (j = Len(responses) /\ pc = "raised" /\ error = "NotFoundError")

\* C8, amended: an error outside the retryable set is raised after the one
\* invocation that produced it, with no backoff sleep and no retry, and the
\* error of an HTTP 404 reaches the caller as the base ServiceError, the
\* class every other non-2xx status is reported with.
C8_NonRetryableOnce ==
    /\ \A i \in 1..Len(outcomes) : NonRetryableAt(i) => RaisedAtOnce(i)
    /\ \A j \in 1..Len(responses) :
          responses[j] = "404"
          => (j = Len(responses) /\ pc = "raised" /\ error = "ServiceError"
              /\ error = MakeRequest("500"))

C8_Witness ==
    /\ responses = <<"404">>
    /\ outcomes = <<"ServiceError">>
    /\ sleeps = <<>>
    /\ pc = "raised"
    /\ error = "ServiceError"

\* the breaker was Open, its timeout not yet elapsed, when the call began
EntryOpen ==
    /\ calls_made >= 1
    /\ entry.cb.state = OPEN
    /\ entry.cb.last_failure_time # None
    /\ entry.at - entry.cb.last_failure_time < config.timeout_seconds

\* C10: a client call that begins while the breaker is Open (timeout not yet
\* elapsed) raises CircuitBreakerOpenError with no HTTP request made, no retry
\* attempted and no backoff sleep performed.
C10_OpenFailsFast ==
    EntryOpen
    => /\ responses = <<>>
       /\ sleeps = <<>>
       /\ \/ pc = "loop" /\ outcomes = <<>>
          \/ /\ pc = "raised"
             /\ error = "CircuitBreakerOpenError"
             /\ outcomes = <<"CircuitBreakerOpenError">>

C10_Witness ==
    /\ EntryOpen
    /\ pc = "raised"
    /\ error = "CircuitBreakerOpenError"
    /\ responses = <<>>

\* every request of the current call failed
NoSuccessYet == \A j \in 1..Len(responses) : responses[j] # "200_valid"

\* C11 as stated: the breaker guards the whole retry sequence as one
\* operation, so one client call raises failure_count by at most 1.
C11_AsStated ==
    calls_made >= 1 => failure_count <= entry.cb.failure_count + 1

\* C11, amended: the retry sequence wraps the breaker, each attempt passes
\* through the breaker on its own, so one client call makes at most
\* max_attempts requests and raises failure_count by one for each request
\* that fails (by at most max_attempts in all).
C11_PerAttempt ==
    calls_made >= 1
    => /\ Len(responses) <= retry_config.max_attempts
       /\ failure_count <= entry.cb.failure_count + Len(responses)
       /\ NoSuccessYet
          => failure_count = entry.cb.failure_count + Len(responses)

C11_Witness ==
    /\ calls_made >= 1
    /\ pc = "raised"
    /\ Len(responses) = retry_config.max_attempts
    /\ failure_count = entry.cb.failure_count + 3

\* C12: whatever the HTTP request meets, a client call returns a validated
\* result or raises a ServiceError (subclass); no raw transport or parsing
\* exception reaches the caller.
C12_OnlyDomainErrors ==
    pc = "raised" => Caught(error, {"ServiceError"})

\* every request of the current call met a retryable failure
AllRequestsRetryable ==
    \A j \in 1..Len(responses) : Caught(MakeRequest(responses[j]), retryable)

\* C13: a client retries according to the RetryConfig given to its
\* constructor: with every request failing retryably and the breaker staying
\* closed it makes max_attempts requests, no more, and its first sleep is
\* that config's initial_delay.
C13_UsesClientConfig ==
    (calls_made >= 1 /\ AllRequestsRetryable /\ entry.cb.state = CLOSED
        /\ state = CLOSED)
    => /\ Len(responses) <= client_retry_config.max_attempts
       /\ pc = "raised" => Len(responses) = client_retry_config.max_attempts
       /\ sleeps # <<>> => sleeps[1] = client_retry_config.initial_delay

-----------------------------------------------------------------------------
(* Further properties of the breaker, checked under Spec *)

\* C14: when func raises, call() adds exactly 1 to failure_count, sets
\* last_failure_time to the time of the failure, leaves the breaker Open if
\* and only if the new failure_count >= failure_threshold, and re-raises
\* the error func raised.
C14_FailureBookkeeping ==
    last.kind = "fail"
    => /\ failure_count = last.pre.failure_count + 1
       /\ last_failure_time = last.ended
       /\ state = OPEN <=> failure_count >= config.failure_threshold
       /\ last.raised = last.outcome
       /\ last.raised # NoError

C14_Witness ==
    /\ last.kind = "fail"
    /\ last.pre.state = OPEN
    /\ last.ended > last.at
    /\ last.ended > last.pre.last_failure_time
    /\ state = OPEN
    /\ last.raised = "Exception"

-----------------------------------------------------------------------------
(* SpecNotify: NotificationServiceClient.send_notification.  The client   *)
(* has no circuit breaker; the breaker variables stay as constructed.     *)

MaxNotifyCalls == 4     \* send_notification calls in one behaviour

\* the arguments a caller may pass, each by its Python type and its text
UserIdArgs ==
    {[type |-> "int", text |-> "123"], [type |-> "str", text |-> "invalid"]}

MessageArgs ==
    {[type |-> "str", text |-> "Hello!"], [type |-> "str", text |-> ""],
     [type |-> "NoneType", text |-> "None"]}

\* NotificationRequest(user_id=..., message=...), main.py 36-39: the two
\* fields are typed int and str and carry no further constraint
NotificationRequest(user_id, message) ==
    IF user_id.type = "int" /\ message.type = "str"
    THEN "ok"
    ELSE "ValidationError"

\* requests.post and the handling of its response, main.py 343-357: the
\* parsed body is returned as it is, whatever its shape
PostNotification(resp) ==
    CASE resp = "200_valid" -> "ok"
      [] resp = "200_invalid" -> "ok"
      [] resp = "200_not_json" -> "JSONDecodeError"
      [] resp = "timeout" -> "ServiceTimeoutError"
      [] resp = "connection_error" -> "ServiceConnectionError"
      [] resp = "404" -> "ServiceError"
      [] resp = "500" -> "ServiceError"
      [] resp = "request_exception" -> "RequestException"

\* mutant: the request is posted behind a breaker that has opened after
\* MaxThreshold consecutive failed calls
SendNotificationBehindBreaker(user_id, message, resp) ==
    IF NotificationRequest(user_id, message) # "ok"
    THEN [result |-> "ServiceValidationError", posted |-> FALSE]
    ELSE IF failed_calls >= MaxThreshold
         THEN [result |-> "CircuitBreakerOpenError", posted |-> FALSE]
         ELSE [result |-> PostNotification(resp), posted |-> TRUE]

\* the body of send_notification, main.py 331-357, when the endpoint would
\* answer resp: what the body returns or raises, and whether it posted
SendNotification(user_id, message, resp) ==
    IF NotificationRequest(user_id, message) # "ok"
    THEN [result |-> "ServiceValidationError", posted |-> FALSE]
    ELSE [result |-> PostNotification(resp), posted |-> TRUE]

\* NotificationServiceClient.__init__, main.py 304-312; the decorator of
\* send_notification was built from RetryConfig() and the two retryable
\* classes (main.py 314-317)
NotifyInit ==
    /\ BreakerIdle
    /\ client_retry_config \in ClientRetryConfigs
    /\ retry_config = DefaultRetryConfig
    /\ retryable = ClientRetryable
    /\ pc = "idle"
    /\ attempt = 0
    /\ delay = 0
    /\ outcomes = <<>>
    /\ sleeps = <<>>
    /\ error = NoError
    /\ responses = <<>>
    /\ calls_made = 0
    /\ entry = [cb |-> NewBreaker, at |-> 0]
    /\ NotifyIdle
    /\ RaceIdle
    /\ CartIdle
    /\ LaterIdle

\* client.send_notification(user_id, message) is called: the wrapper
\* starts.  failed_calls counts the calls that posted and failed since the
\* last call that returned.
SendNotificationEnter ==
    /\ pc \in {"idle", "returned", "raised"}
    /\ calls_made < MaxNotifyCalls
    /\ EnterEffect
    /\ calls_made' = calls_made + 1
    /\ responses' = <<>>
    /\ \E u \in UserIdArgs, m \in MessageArgs :
          request' = [user_id |-> u, message |-> m]
    /\ failed_calls' = IF pc = "returned" THEN 0
                       ELSE IF pc = "raised" /\ responses # <<>>
                            THEN failed_calls + 1
                            ELSE failed_calls
    /\ UNCHANGED <<breaker_vars, client_retry_config, entry, race_vars,
                   cart_vars, later_vars>>

\* one iteration of the wrapper's loop runs the body of send_notification
SendNotificationTry ==
    /\ pc = "loop"
    /\ attempt < retry_config.max_attempts
    /\ \E resp \in HttpOutcomes :
          LET r == SendNotification(request.user_id, request.message, resp)
          IN  /\ TryEffect(r.result)
              /\ responses' = IF r.posted THEN Append(responses, resp)
                              ELSE responses
    /\ UNCHANGED <<breaker_vars, client_retry_config, calls_made, entry,
                   other_vars>>

\* time.sleep(delay) between two iterations
SendNotificationSleep ==
    /\ pc = "sleep"
    /\ SleepEffect
    /\ now' = now + delay
    /\ UNCHANGED <<config, state, failure_count, success_count,
                   last_failure_time, func_calls, hist, last>>
    /\ UNCHANGED <<client_vars, other_vars>>

\* main.py 217 is not reached here: RetryConfig() has max_attempts = 3
NotifyNext ==
    SendNotificationEnter \/ SendNotificationTry \/ SendNotificationSleep

SpecNotify == NotifyInit /\ [][NotifyNext]_vars

\* C15 as stated, for the notification client: after failure_threshold
\* consecutive failed calls (failure_threshold at most MaxThreshold) and
\* before any time has passed, the next call, given a well-typed request,
\* raises CircuitBreakerOpenError and posts nothing.
C15_AsStated ==
    (/\ failed_calls >= MaxThreshold
     /\ now = 0
     /\ NotificationRequest(request.user_id, request.message) = "ok"
     /\ pc \in {"returned", "raised"})
    => error = "CircuitBreakerOpenError" /\ responses = <<>>

\* C15: send_notification is not routed through a circuit breaker: it
\* never raises CircuitBreakerOpenError, the client's breaker state never
\* changes, every attempt of a call with a well-typed request posts, and
\* such a call posts at least once however many calls failed before it.
C15_NotificationHasNoBreaker ==
    /\ error # "CircuitBreakerOpenError"
    /\ \A j \in 1..Len(outcomes) : outcomes[j] # "CircuitBreakerOpenError"
    /\ Breaker = NewBreaker
    /\ (calls_made >= 1
        /\ NotificationRequest(request.user_id, request.message) = "ok")
       => /\ Len(responses) = Len(outcomes)
          /\ pc \in {"returned", "raised"} => Len(responses) >= 1

C15_Witness ==
    /\ failed_calls >= MaxThreshold
    /\ now = 0
    /\ pc = "raised"
    /\ error = "ServiceError"
    /\ Len(responses) = 1

\* the requests the claim calls invalid
InvalidAsClaimed ==
    request.user_id.type # "int" \/ request.message.text = ""

\* C17: send_notification with a user_id that is not an integer, or with
\* an empty message, posts nothing, never sleeps, and ends after one
\* attempt by raising ServiceValidationError.
C17_RejectsInvalidRequest ==
    (calls_made >= 1 /\ InvalidAsClaimed)
    => /\ responses = <<>>
       /\ sleeps = <<>>
       /\ pc \in {"returned", "raised"}
          => error = "ServiceValidationError" /\ Len(outcomes) = 1

-----------------------------------------------------------------------------
(* SpecRace: two threads call the same CircuitBreaker, and the wrapped    *)
(* operation raises every time.  call() and _on_failure take no lock, so  *)
(* the interpreter may switch threads between any two reads or writes of  *)
(* the breaker's fields: each action below is one such read or write.     *)

MaxRaceCalls == 4       \* calls of call() begun in one behaviour

Threads == {"A", "B"}

\* the components SpecRace does not run
race_idle_vars == <<retry_vars, client_vars, notify_vars, cart_vars,
                    later_vars>>

\* success_threshold plays no part when every operation raises
RaceConfigs == {c \in CircuitBreakerConfigs : c.success_threshold = 1}

RaceInit ==
    /\ BreakerInit(RaceConfigs)
    /\ RetryIdle
    /\ ClientIdle
    /\ NotifyIdle
    /\ CartIdle
    /\ LaterIdle
    /\ thread_pc = [t \in Threads |-> "idle"]
    /\ thread_read = [t \in Threads |-> 0]
    /\ race_calls = 0
    /\ race_failures = 0
    /\ overlapped = FALSE

Goto(t, label) == thread_pc' = [thread_pc EXCEPT ![t] = label]

\* main.py 135: a thread enters call() and reads self.state
CallEnter(t) ==
    /\ thread_pc[t] = "idle"
    /\ race_calls < MaxRaceCalls
    /\ race_calls' = race_calls + 1
    /\ overlapped' = (overlapped \/ \E u \in Threads : thread_pc[u] # "idle")
    /\ Goto(t, IF state = OPEN THEN "should_attempt_reset" ELSE "func")
    /\ UNCHANGED race_idle_vars
    /\ UNCHANGED <<breaker_vars, thread_read, race_failures>>

\* main.py 136, 152-156: _should_attempt_reset reads last_failure_time and
\* the clock; main.py 140: CircuitBreakerOpenError ends the call
CallShouldAttemptReset(t) ==
    /\ thread_pc[t] = "should_attempt_reset"
    /\ Goto(t, IF ShouldAttemptReset(Breaker, config, now)
               THEN "half_open" ELSE "idle")
    /\ UNCHANGED race_idle_vars
    /\ UNCHANGED <<breaker_vars, thread_read, race_calls, race_failures,
                   overlapped>>

\* main.py 137-138: the two writes; nothing here reads success_count
CallHalfOpen(t) ==
    /\ thread_pc[t] = "half_open"
    /\ state' = HALF_OPEN
    /\ success_count' = 0
    /\ Goto(t, "func")
    /\ UNCHANGED race_idle_vars
    /\ UNCHANGED <<config, failure_count, last_failure_time, now, func_calls,
                   hist, last, thread_read, race_calls, race_failures,
                   overlapped>>

\* main.py 145, 148: func() raises and the except clause is entered
CallFunc(t) ==
    /\ thread_pc[t] = "func"
    /\ race_failures' = race_failures + 1
    /\ Goto(t, "load")
    /\ UNCHANGED race_idle_vars
    /\ UNCHANGED <<breaker_vars, thread_read, race_calls, overlapped>>

\* main.py 171, self.failure_count += 1: the read
OnFailureLoad(t) ==
    /\ thread_pc[t] = "load"
    /\ thread_read' = [thread_read EXCEPT ![t] = failure_count]
    /\ Goto(t, "store")
    /\ UNCHANGED race_idle_vars
    /\ UNCHANGED <<breaker_vars, race_calls, race_failures, overlapped>>

\* mutant: the write stores what was read, without the increment
OnFailureStoreStale(t) ==
    /\ thread_pc[t] = "store"
    /\ failure_count' = thread_read[t]
    /\ Goto(t, "stamp")
    /\ UNCHANGED race_idle_vars
    /\ UNCHANGED <<config, state, success_count, last_failure_time, now,
                   func_calls, hist, last, thread_read, race_calls,
                   race_failures, overlapped>>

\* main.py 171, self.failure_count += 1: the write
OnFailureStore(t) ==
    /\ thread_pc[t] = "store"
    /\ failure_count' = thread_read[t] + 1
    /\ Goto(t, "stamp")
    /\ UNCHANGED race_idle_vars
    /\ UNCHANGED <<config, state, success_count, last_failure_time, now,
                   func_calls, hist, last, thread_read, race_calls,
                   race_failures, overlapped>>

\* main.py 172: self.last_failure_time = time.time()
OnFailureStamp(t) ==
    /\ thread_pc[t] = "stamp"
    /\ last_failure_time' = now
    /\ Goto(t, "check")
    /\ UNCHANGED race_idle_vars
    /\ UNCHANGED <<config, state, failure_count, success_count, now,
                   func_calls, hist, last, thread_read, race_calls,
                   race_failures, overlapped>>

\* main.py 174: the threshold test reads failure_count again; below the
\* threshold _on_failure returns and call() re-raises (main.py 150)
OnFailureCheck(t) ==
    /\ thread_pc[t] = "check"
    /\ Goto(t, IF failure_count >= config.failure_threshold
               THEN "open" ELSE "idle")
    /\ UNCHANGED race_idle_vars
    /\ UNCHANGED <<breaker_vars, thread_read, race_calls, race_failures,
                   overlapped>>

\* main.py 175: self.state = OPEN, then call() re-raises
OnFailureOpen(t) ==
    /\ thread_pc[t] = "open"
    /\ state' = OPEN
    /\ Goto(t, "idle")
    /\ UNCHANGED race_idle_vars
    /\ UNCHANGED <<config, failure_count, success_count, last_failure_time,
                   now, func_calls, hist, last, thread_read, race_calls,
                   race_failures, overlapped>>

\* time passes between any two steps
RaceTick ==
    /\ now < MaxTimeout
    /\ now' = now + 1
    /\ UNCHANGED race_idle_vars
    /\ UNCHANGED <<config, state, failure_count, success_count,
                   last_failure_time, func_calls, hist, last, race_vars>>

RaceNext ==
    \/ \E t \in Threads : CallEnter(t)
    \/ \E t \in Threads : CallShouldAttemptReset(t)
    \/ \E t \in Threads : CallHalfOpen(t)
    \/ \E t \in Threads : CallFunc(t)
    \/ \E t \in Threads : OnFailureLoad(t)
    \/ \E t \in Threads : OnFailureStore(t)
    \/ \E t \in Threads : OnFailureStamp(t)
    \/ \E t \in Threads : OnFailureCheck(t)
    \/ \E t \in Threads : OnFailureOpen(t)
    \/ RaceTick

SpecRace == RaceInit /\ [][RaceNext]_vars

AllIdle == \A t \in Threads : thread_pc[t] = "idle"

\* C18: without a lock the += 1 of two threads can interleave and lose
\* counts.  What remains true: failure_count never exceeds the number of
\* failed operations and is at least 1 once one has failed; and when no
\* two calls ever overlapped, failure_count equals the number of failed
\* operations and the breaker is Closed only below failure_threshold.
C18_RaceBounds ==
    /\ failure_count <= race_failures
    /\ (AllIdle /\ race_failures >= 1) => failure_count >= 1
    /\ (AllIdle /\ ~overlapped)
       => /\ failure_count = race_failures
          /\ state = CLOSED <=> race_failures < config.failure_threshold

\* the lost update: calls overlapped, every call has ended, more than
\* failure_threshold operations failed, the count fell short of them and
\* the breaker is still Closed
C18_Witness ==
    /\ AllIdle
    /\ overlapped
    /\ race_failures > config.failure_threshold
    /\ failure_count < race_failures
    /\ failure_count < config.failure_threshold
    /\ state = CLOSED

-----------------------------------------------------------------------------
(* ShoppingCart, examples/level-01-foundation/03-data-structure/solution/  *)
(* main.py.  A string is the sequence of its characters; a Python value    *)
(* passed as an argument is a record of its type and its content; a float  *)
(* is its value v, or NaN when nan is TRUE.                                *)
(*   SpecCart       add_item, remove_item, update_item_price and clear     *)
(*   SpecCartItems  SpecCart and a caller that writes through .items       *)

MaxItems == 2           \* add_item appends while the cart is shorter
MaxPrice == 2           \* the largest price passed

\* "", " ", "a", " a", "a ", "b", " b " and "a b"
Strings ==
    {<<>>, <<" ">>, <<"a">>, <<" ", "a">>, <<"a", " ">>, <<"b">>,
     <<" ", "b", " ">>, <<"a", " ", "b">>}

\* item_name arguments: any string, or a value that is not a str
NameArgs ==
    {[type |-> "str", s |-> str] : str \in Strings}
    \cup {[type |-> "int", s |-> <<>>]}

\* price arguments: floats and an int, float("nan"), and a str
PriceArgs ==
    {[type |-> "float", v |-> n, nan |-> FALSE] : n \in {-1, 0, MaxPrice}}
    \cup {[type |-> "int", v |-> MaxPrice, nan |-> FALSE],
          [type |-> "float", v |-> 0, nan |-> TRUE],
          [type |-> "str", v |-> 0, nan |-> FALSE]}

RECURSIVE LStrip(_)
LStrip(str) ==
    IF str = <<>> THEN str
    ELSE IF Head(str) = " " THEN LStrip(Tail(str)) ELSE str

RECURSIVE RStrip(_)
RStrip(str) ==
    IF str = <<>> THEN str
    ELSE IF str[Len(str)] = " " THEN RStrip(SubSeq(str, 1, Len(str) - 1))
         ELSE str

\* str.strip()
Strip(str) == RStrip(LStrip(str))

\* isinstance(price, (int, float))
IsNumeric(price) == price.type \in {"int", "float"}

\* price < n and price >= n on floats: every comparison with NaN is False
Less(price, n) == ~price.nan /\ price.v < n

AtLeast(price, n) == ~price.nan /\ price.v >= n

\* float(price)
Float(price) == [type |-> "float", v |-> price.v, nan |-> price.nan]

\* mutant: the name is compared as it was passed
ItemExistsUnstripped(its, item_name) ==
    \E i \in 1..Len(its) : its[i].item = item_name

\* ShoppingCart._item_exists, main.py 244-254
ItemExists(its, item_name) ==
    \E i \in 1..Len(its) : its[i].item = Strip(item_name)

\* the index of the first item of that name, 0 when there is none
\* (the for loops of main.py 147-150 and 190-193)
FirstIndex(its, name) ==
    IF \E i \in 1..Len(its) : its[i].item = name
    THEN CHOOSE i \in 1..Len(its) :
            /\ its[i].item = name
            /\ \A j \in 1..(i - 1) : its[j].item # name
    ELSE 0

\* list.pop(i), 1-based
Pop(its, i) == SubSeq(its, 1, i - 1) \o SubSeq(its, i + 1, Len(its))

\* ShoppingCart.add_item, main.py 72-116
AddItem(its, item_name, price) ==
    IF item_name.type # "str"
    THEN [raised |-> "TypeError", returned |-> "None", items |-> its]
    ELSE IF Strip(item_name.s) = <<>>
    THEN [raised |-> "ValueError", returned |-> "None", items |-> its]
    ELSE IF ~IsNumeric(price)
    THEN [raised |-> "TypeError", returned |-> "None", items |-> its]
    ELSE IF Less(price, 0)
    THEN [raised |-> "ValueError", returned |-> "None", items |-> its]
    ELSE IF ItemExists(its, item_name.s)
    THEN [raised |-> "ValueError", returned |-> "None", items |-> its]
    ELSE [raised |-> NoError, returned |-> "None",
          items |-> Append(its, [item |-> Strip(item_name.s),
                                 price |-> Float(price)])]

\* ShoppingCart.remove_item, main.py 118-152
RemoveItem(its, item_name) ==
    IF item_name.type # "str"
    THEN [raised |-> "TypeError", returned |-> "None", items |-> its]
    ELSE LET i == FirstIndex(its, Strip(item_name.s))
         IN  IF i # 0
             THEN [raised |-> NoError, returned |-> "True",
                   items |-> Pop(its, i)]
             ELSE [raised |-> NoError, returned |-> "False", items |-> its]

\* ShoppingCart.update_item_price, main.py 154-195
UpdateItemPrice(its, item_name, new_price) ==
    IF item_name.type # "str"
    THEN [raised |-> "TypeError", returned |-> "None", items |-> its]
    ELSE IF ~IsNumeric(new_price)
    THEN [raised |-> "TypeError", returned |-> "None", items |-> its]
    ELSE IF Less(new_price, 0)
    THEN [raised |-> "ValueError", returned |-> "None", items |-> its]
    ELSE LET i == FirstIndex(its, Strip(item_name.s))
         IN  IF i # 0
             THEN [raised |-> NoError, returned |-> "True",
                   items |-> [its EXCEPT ![i].price = Float(new_price)]]
             ELSE [raised |-> NoError, returned |-> "False", items |-> its]

\* what cart_last keeps of an operation: how it ended, and what its
\* arguments were like in the cart it met
Record(op, item_name, price, r) ==
    [op |-> op, raised |-> r.raised, returned |-> r.returned,
     changed |-> (r.items # items),
     is_str |-> (item_name.type = "str"),
     blank |-> (Strip(item_name.s) = <<>>),
     padded |-> (Strip(item_name.s) # item_name.s),
     present |-> (\E i \in 1..Len(items) : items[i].item = Strip(item_name.s)),
     numeric |-> IsNumeric(price),
     negative |-> (IsNumeric(price) /\ Less(price, 0))]

NoArg == [type |-> "none", s |-> <<>>, v |-> 0, nan |-> FALSE]

\* the components the cart specifications do not run
cart_idle_vars == <<breaker_vars, retry_vars, client_vars, notify_vars,
                    race_vars, later_vars>>

\* ShoppingCart.__init__, main.py 53-59
CartInit ==
    /\ BreakerIdle
    /\ RetryIdle
    /\ ClientIdle
    /\ NotifyIdle
    /\ RaceIdle
    /\ LaterIdle
    /\ items = <<>>
    /\ cart_last = [op |-> "none", raised |-> NoError, returned |-> "None",
                    changed |-> FALSE, is_str |-> FALSE, blank |-> TRUE,
                    padded |-> FALSE, present |-> FALSE, numeric |-> FALSE,
                    negative |-> FALSE]

\* cart.add_item(item_name, price)
CartAddItem ==
    /\ \E item_name \in NameArgs, price \in PriceArgs :
          LET r == AddItem(items, item_name, price)
          IN  /\ r.raised # NoError \/ Len(items) < MaxItems
              /\ items' = r.items
              /\ cart_last' = Record("add_item", item_name, price, r)
    /\ UNCHANGED cart_idle_vars

\* cart.remove_item(item_name)
CartRemoveItem ==
    /\ \E item_name \in NameArgs :
          LET r == RemoveItem(items, item_name)
          IN  /\ items' = r.items
              /\ cart_last' = Record("remove_item", item_name, NoArg, r)
    /\ UNCHANGED cart_idle_vars

\* cart.update_item_price(item_name, new_price)
CartUpdateItemPrice ==
    /\ \E item_name \in NameArgs, new_price \in PriceArgs :
          LET r == UpdateItemPrice(items, item_name, new_price)
          IN  /\ items' = r.items
              /\ cart_last' = Record("update_item_price", item_name,
                                     new_price, r)
    /\ UNCHANGED cart_idle_vars

\* cart.clear(), main.py 236-242
CartClear ==
    /\ items' = <<>>
    /\ cart_last' = Record("clear", NoArg, NoArg,
                           [raised |-> NoError, returned |-> "None",
                            items |-> <<>>])
    /\ UNCHANGED cart_idle_vars

\* cart.items[i]["price"] = price by a caller: the property returns
\* tuple(self._items), main.py 70, a new tuple of the cart's own dicts
CartItemsSetPrice ==
    /\ \E i \in 1..Len(items), price \in PriceArgs :
          /\ price.type = "float"
          /\ LET r == [raised |-> NoError, returned |-> "None",
                       items |-> [items EXCEPT ![i].price = price]]
             IN  /\ items' = r.items
                 /\ cart_last' = Record("items", NoArg, price, r)
    /\ UNCHANGED cart_idle_vars

CartNext == CartAddItem \/ CartRemoveItem \/ CartUpdateItemPrice \/ CartClear

SpecCart == CartInit /\ [][CartNext]_vars

CartItemsNext ==
    \/ CartAddItem
    \/ CartRemoveItem
    \/ CartUpdateItemPrice
    \/ CartClear
    \/ CartItemsSetPrice

SpecCartItems == CartInit /\ [][CartItemsNext]_vars

C20_PricesNonNegative ==
    /\ \A i \in 1..Len(items) : AtLeast(items[i].price, 0)
    /\ (/\ cart_last.op \in {"add_item", "update_item_price"}
        /\ cart_last.is_str
        /\ cart_last.op = "add_item" => ~cart_last.blank
        /\ cart_last.negative)
       => cart_last.raised = "ValueError" /\ ~cart_last.changed

-----------------------------------------------------------------------------
(* Further properties of the breaker, the decorator and get_user *)

\* C23 as stated: after a failing call in HalfOpen the breaker is Open and
\* failure_count equals failure_threshold.
C23_AsStated ==
    (last.kind = "fail" /\ last.mid.state = HALF_OPEN)
    => state = OPEN /\ failure_count = config.failure_threshold

\* C23: after a failing call in HalfOpen the breaker is Open and
\* failure_count is one more than before the call, which is more than
\* failure_threshold: nothing sets it back to the threshold.
C23_HalfOpenFailureCounts ==
    (last.kind = "fail" /\ last.mid.state = HALF_OPEN)
    => /\ state = OPEN
       /\ failure_count = last.pre.failure_count + 1
       /\ failure_count > config.failure_threshold

C23_Witness ==
    /\ last.kind = "fail"
    /\ last.mid.state = HALF_OPEN
    /\ last.pre.state = OPEN
    /\ state = OPEN
    /\ failure_count = config.failure_threshold + 2

\* C24: every backoff sleep of the wrapper lasts at most max_delay.
C24_SleepsCapped ==
    \A k \in 1..Len(sleeps) : sleeps[k] <= retry_config.max_delay

\* C25: in single-threaded use a Closed breaker has failure_count below
\* failure_threshold; an Open or HalfOpen breaker has failure_count at or
\* above it and last_failure_time set, so that an Open breaker lets a call
\* through once timeout_seconds have passed since last_failure_time.
C25_StateInvariant ==
    /\ state = CLOSED => failure_count < config.failure_threshold
    /\ state \in {OPEN, HALF_OPEN}
       => /\ failure_count >= config.failure_threshold
          /\ last_failure_time # None
    /\ state = OPEN
       => ShouldAttemptReset(Breaker, config,
                             last_failure_time + config.timeout_seconds)

C25_Witness ==
    /\ state = CLOSED
    /\ failure_count = config.failure_threshold - 1
    /\ failure_count >= 1
    /\ last_failure_time # None
    /\ \E i \in 1..Len(hist) : hist[i].probe

\* C26: a call rejected with CircuitBreakerOpenError leaves state,
\* failure_count, success_count and last_failure_time as they were and
\* does not invoke func.
C26_RejectionChangesNothing ==
    last.kind = "rejected"
    => /\ last.raised = "CircuitBreakerOpenError"
       /\ Breaker = last.pre
       /\ func_calls = last.func_calls

C26_Witness ==
    /\ last.kind = "rejected"
    /\ last.at > last.pre.last_failure_time
    /\ last_failure_time = last.pre.last_failure_time
    /\ Len(hist) >= 2
    /\ hist[Len(hist) - 1].kind = "rejected"

\* every request of the current get_user call timed out
AllTimedOut == \A j \in 1..Len(responses) : responses[j] = "timeout"

\* failures the breaker could still take when the current call began
Room == config.failure_threshold - entry.cb.failure_count

\* C27: each attempt of get_user passes through the breaker.  When the
\* call began with the breaker Closed, every request timed out, and the
\* attempt after the one that opened the breaker came before
\* timeout_seconds had passed, the call makes exactly
\* min(max_attempts, failure_threshold - f) requests and raises
\* ServiceTimeoutError if max_attempts <= failure_threshold - f and
\* CircuitBreakerOpenError otherwise.
C27_RequestsUntilOpen ==
    (/\ calls_made >= 1
     /\ pc = "raised"
     /\ entry.cb.state = CLOSED
     /\ AllTimedOut
     /\ Len(sleeps) >= Room => sleeps[Room] < config.timeout_seconds)
    => /\ Len(responses) = Min(retry_config.max_attempts, Room)
       /\ error = IF retry_config.max_attempts <= Room
                  THEN "ServiceTimeoutError"
                  ELSE "CircuitBreakerOpenError"

C27_Witness ==
    /\ calls_made >= 1
    /\ pc = "raised"
    /\ entry.cb.state = CLOSED
    /\ entry.cb.failure_count >= 1
    /\ AllTimedOut
    /\ Len(responses) = Room
    /\ Len(sleeps) = Room
    /\ sleeps[Room] < config.timeout_seconds
    /\ error = "CircuitBreakerOpenError"

-----------------------------------------------------------------------------
(* UserAuthenticator (04-testing/solution/main.py).  A str argument is its *)
(* sequence of characters s; any other value has another type.             *)
(*   SpecAuth   register_user, authenticate, deactivate_user and           *)
(*              activate_user in any order                                 *)

min_password_length == 6
max_password_length == 128
max_username_length == 50

\* a str of n characters
Long(n) == [i \in 1..n |-> "x"]

Str(str) == [type |-> "str", s |-> str]

NotAStr == [type |-> "int", s |-> <<>>]

\* username arguments: "a", " a ", "b", "", " ", 51 characters, not a str
UsernameArgs ==
    {Str(<<"a">>), Str(<<" ", "a", " ">>), Str(<<"b">>), Str(<<>>),
     Str(<<" ">>), Str(Long(max_username_length + 1)), NotAStr}

\* password arguments: "secret", " secret ", "secreT", "secre ", "",
\* 129 characters, not a str
PasswordArgs ==
    {Str(<<"s", "e", "c", "r", "e", "t">>),
     Str(<<" ", "s", "e", "c", "r", "e", "t", " ">>),
     Str(<<"s", "e", "c", "r", "e", "T">>),
     Str(<<"s", "e", "c", "r", "e", " ">>),
     Str(<<>>), Str(Long(max_password_length + 1)), NotAStr}

\* email arguments: "a@b", " a@b ", "ab", "", not a str
EmailArgs ==
    {Str(<<"a", "@", "b">>), Str(<<" ", "a", "@", "b", " ">>),
     Str(<<"a", "b">>), Str(<<>>), NotAStr}

\* not x or not isinstance(x, str)
Missing(x) == x.type # "str" \/ x.s = <<>>

\* '@' in email
HasAt(str) == \E i \in 1..Len(str) : str[i] = "@"

\* username in self.users
Registered(us, name) == name \in DOMAIN us

Result(us, ok, message) == [users |-> us, ok |-> ok, message |-> message]

\* UserAuthenticator.register_user, main.py 16-54
RegisterUser(us, username, password, email) ==
    IF Missing(username) THEN Result(us, FALSE, "Username is required")
    ELSE IF Strip(username.s) = <<>>
    THEN Result(us, FALSE, "Username cannot be empty")
    ELSE IF Len(Strip(username.s)) > max_username_length
    THEN Result(us, FALSE, "Username too long (max 50 characters)")
    ELSE IF Registered(us, Strip(username.s))
    THEN Result(us, FALSE, "Username already exists")
    ELSE IF Missing(password) THEN Result(us, FALSE, "Password is required")
    ELSE IF Len(Strip(password.s)) < min_password_length
    THEN Result(us, FALSE, "Password too short (minimum 6 characters)")
    ELSE IF Len(Strip(password.s)) > max_password_length
    THEN Result(us, FALSE, "Password too long (max 128 characters)")
    ELSE IF Missing(email) THEN Result(us, FALSE, "Email is required")
    ELSE IF ~HasAt(Strip(email.s))
    THEN Result(us, FALSE, "Invalid email format")
    ELSE Result((Strip(username.s) :> [password |-> Strip(password.s),
                                       email |-> Strip(email.s),
                                       active |-> TRUE]) @@ us,
                TRUE, "User registered successfully")

\* mutant: the account's state is not looked at
AuthenticateIgnoresActive(us, username, password) ==
    IF Missing(username) THEN Result(us, FALSE, "Username is required")
    ELSE IF Missing(password) THEN Result(us, FALSE, "Password is required")
    ELSE IF ~Registered(us, Strip(username.s))
    THEN Result(us, FALSE, "User not found")
    ELSE IF us[Strip(username.s)].password # password.s
    THEN Result(us, FALSE, "Invalid password")
    ELSE Result(us, TRUE, "Authentication successful")

\* UserAuthenticator.authenticate, main.py 56-76
Authenticate(us, username, password) ==
    IF Missing(username) THEN Result(us, FALSE, "Username is required")
    ELSE IF Missing(password) THEN Result(us, FALSE, "Password is required")
    ELSE IF ~Registered(us, Strip(username.s))
    THEN Result(us, FALSE, "User not found")
    ELSE IF ~us[Strip(username.s)].active
    THEN Result(us, FALSE, "User account is inactive")
    ELSE IF us[Strip(username.s)].password # password.s
    THEN Result(us, FALSE, "Invalid password")
    ELSE Result(us, TRUE, "Authentication successful")

\* deactivate_user and activate_user, main.py 78-87 and 89-98: they
\* differ in the value they store
SetActive(us, username, value) ==
    IF Missing(username) THEN Result(us, FALSE, "")
    ELSE IF Registered(us, Strip(username.s))
    THEN Result([us EXCEPT ![Strip(username.s)].active = value], TRUE, "")
    ELSE Result(us, FALSE, "")

NoPending == [op |-> "none"]

\* the components the authenticator specification does not run
auth_idle_vars == <<breaker_vars, retry_vars, client_vars, notify_vars,
                    race_vars, cart_vars, api_vars, order_vars>>

\* UserAuthenticator.__init__, main.py 10-14
AuthInit ==
    /\ BreakerIdle
    /\ RetryIdle
    /\ ClientIdle
    /\ NotifyIdle
    /\ RaceIdle
    /\ CartIdle
    /\ ApiIdle
    /\ OrderIdle
    /\ users = <<>>
    /\ auth_pending = NoPending
    /\ auth_last = [op |-> "none", ok |-> FALSE, message |-> "",
                    username |-> NotAStr, password |-> NotAStr,
                    follows |-> FALSE, pre |-> <<>>]

AuthRecord(op, username, password, r) ==
    /\ users' = r.users
    /\ auth_last' = [op |-> op, ok |-> r.ok, message |-> r.message,
                     username |-> username, password |-> password,
                     follows |-> /\ auth_pending # NoPending
                                 /\ auth_pending.username = username
                                 /\ auth_pending.password = password,
                     pre |-> users]
    /\ UNCHANGED auth_idle_vars

AuthRegisterUser ==
    \E username \in UsernameArgs, password \in PasswordArgs,
       email \in EmailArgs :
        LET r == RegisterUser(users, username, password, email) IN
        /\ AuthRecord("register_user", username, password, r)
        /\ auth_pending' = IF r.ok
                           THEN [op |-> "register_user",
                                 username |-> username,
                                 password |-> password]
                           ELSE NoPending

AuthAuthenticate ==
    \E username \in UsernameArgs, password \in PasswordArgs :
        /\ AuthRecord("authenticate", username, password,
                      Authenticate(users, username, password))
        /\ auth_pending' = NoPending

AuthDeactivateUser ==
    \E username \in UsernameArgs :
        /\ AuthRecord("deactivate_user", username, NotAStr,
                      SetActive(users, username, FALSE))
        /\ auth_pending' = NoPending

AuthActivateUser ==
    \E username \in UsernameArgs :
        /\ AuthRecord("activate_user", username, NotAStr,
                      SetActive(users, username, TRUE))
        /\ auth_pending' = NoPending

AuthNext ==
    \/ AuthRegisterUser
    \/ AuthAuthenticate
    \/ AuthDeactivateUser
    \/ AuthActivateUser

SpecAuth == AuthInit /\ [][AuthNext]_vars

\* C21: an authenticate(username, password) that immediately follows a
\* successful register_user(username, password, email), with the same
\* username and password arguments, returns success.
C21_RegisterThenAuthenticate ==
    (auth_last.op = "authenticate" /\ auth_last.follows) => auth_last.ok

\* the account that the last operation's username argument names
LastName == Strip(auth_last.username.s)

LastNamesAccount ==
    /\ ~Missing(auth_last.username)
    /\ Registered(users, LastName)

\* C22 as stated: for an inactive account every authenticate(u, p) fails
\* with the 'inactive' message, whatever p is.
C22_AsStated ==
    (/\ auth_last.op = "authenticate"
     /\ LastNamesAccount
     /\ ~users[LastName].active)
    => (~auth_last.ok /\ auth_last.message = "User account is inactive")

\* C22: authenticate succeeds only for a registered, active account and
\* the stored password, and does succeed then; for an inactive account it
\* fails with the 'inactive' message whenever p is a non-empty str (an
\* empty or non-str p fails with "Password is required" instead);
\* deactivate_user makes the account inactive and activate_user active,
\* and nothing else changes an account's active flag or its password.
C22_ActiveOnly ==
    /\ (auth_last.op = "authenticate" /\ auth_last.ok)
       => /\ LastNamesAccount
          /\ users[LastName].active
          /\ users[LastName].password = auth_last.password.s
    /\ (/\ auth_last.op = "authenticate"
        /\ LastNamesAccount
        /\ ~users[LastName].active
        /\ ~Missing(auth_last.password))
       => (~auth_last.ok /\ auth_last.message = "User account is inactive")
    /\ (/\ auth_last.op = "authenticate"
        /\ LastNamesAccount
        /\ users[LastName].active
        /\ auth_last.password = Str(users[LastName].password))
       => auth_last.ok
    /\ (auth_last.op = "deactivate_user" /\ LastNamesAccount)
       => (auth_last.ok /\ ~users[LastName].active)
    /\ (auth_last.op = "activate_user" /\ LastNamesAccount)
       => (auth_last.ok /\ users[LastName].active)
    /\ \A n \in DOMAIN auth_last.pre :
        /\ Registered(users, n)
        /\ users[n].password = auth_last.pre[n].password
        /\ users[n].active # auth_last.pre[n].active
           => /\ auth_last.op = IF users[n].active THEN "activate_user"
                                ELSE "deactivate_user"
              /\ LastName = n

\* authenticate with the stored password is refused because the account
\* is inactive
C22_Witness ==
    /\ auth_last.op = "authenticate"
    /\ LastNamesAccount
    /\ ~users[LastName].active
    /\ auth_last.password = Str(users[LastName].password)
    /\ ~auth_last.ok
    /\ auth_last.message = "User account is inactive"

-----------------------------------------------------------------------------
(* The user-management API (01-api-endpoint/solution/main.py): the POST,   *)
(* PUT and DELETE handlers on the global UserStore.  A request body is     *)
(* not JSON, a JSON value that is no object, or an object whose fields     *)
(* name, email and age are given or left out.                              *)
(*   SpecApi   create_user, update_user and delete_user in any order       *)

MaxCreates == 3         \* UserStore.create is called while _next_id <= this

\* a field of the request body that was left out (or is null)
NoName == [given |-> FALSE, v |-> <<>>]

NoEmail == [given |-> FALSE, v |-> ""]

NoAge == [given |-> FALSE, v |-> 0]

Given(v) == [given |-> TRUE, v |-> v]

\* name values: "Al" and ""
NameFields == {NoName, Given(<<"A", "l">>), Given(<<>>)}

\* email values: three addresses and a string that is no address
EmailFields ==
    {NoEmail, Given("a@x.com"), Given("a@X.COM"), Given("b@x.com"),
     Given("nope")}

\* age values: one in range and one above it
AgeFields == {NoAge, Given(25), Given(151)}

Bodies ==
    {[kind |-> "object", name |-> n, email |-> e, age |-> a] :
        n \in NameFields, e \in EmailFields, a \in AgeFields}
    \cup {[kind |-> k, name |-> NoName, email |-> NoEmail,
           age |-> NoAge] : k \in {"not_json", "array"}}

\* the <int:user_id> of the URL
UserIds == 1..MaxCreates

\* EmailStr accepts an address and gives it with its domain in lower case
EmailOk(v) == v # "nope"

EmailStr(v) == IF v = "a@X.COM" THEN "a@x.com" ELSE v

\* Field(..., min_length=1, max_length=100)
NameOk(v) == Len(v) >= 1 /\ Len(v) <= 100

\* Field(..., ge=0, le=150)
AgeOk(v) == v >= 0 /\ v <= 150

\* UserCreate(**request.json) raises no ValidationError, main.py 22-36
UserCreateOk(body) ==
    /\ body.name.given /\ NameOk(body.name.v)
    /\ body.email.given /\ EmailOk(body.email.v)
    /\ body.age.given => AgeOk(body.age.v)

\* UserUpdate(**request.json) raises no ValidationError, main.py 49-62
UserUpdateOk(body) ==
    /\ body.name.given => NameOk(body.name.v)
    /\ body.email.given => EmailOk(body.email.v)
    /\ body.age.given => AgeOk(body.age.v)

\* mutant: the id is the number of stored users plus one
StoreCreateCountsUsers(us, nid, body) ==
    [users |-> Append(us, [id |-> Len(us) + 1,
                           name |-> body.name.v,
                           email |-> EmailStr(body.email.v),
                           age |-> IF body.age.given THEN body.age.v ELSE 0]),
     next_id |-> nid + 1,
     id |-> Len(us) + 1]

\* UserStore.create, main.py 139-149
StoreCreate(us, nid, body) ==
    [users |-> Append(us, [id |-> nid,
                           name |-> body.name.v,
                           email |-> EmailStr(body.email.v),
                           age |-> IF body.age.given THEN body.age.v ELSE 0]),
     next_id |-> nid + 1,
     id |-> nid]

\* the index of the first stored user of that id, 0 when there is none
\* (the for loop of main.py 168-169)
IndexOfId(us, user_id) ==
    IF \E i \in 1..Len(us) : us[i].id = user_id
    THEN CHOOSE i \in 1..Len(us) :
            /\ us[i].id = user_id
            /\ \A j \in 1..(i - 1) : us[j].id # user_id
    ELSE 0

\* UserStore.update, main.py 166-178, for a user that is stored
StoreUpdate(us, user_id, body) ==
    LET i == IndexOfId(us, user_id) IN
    [us EXCEPT ![i] =
        [id |-> us[i].id,
         name |-> IF body.name.given THEN body.name.v ELSE us[i].name,
         email |-> IF body.email.given THEN EmailStr(body.email.v)
                   ELSE us[i].email,
         age |-> IF body.age.given THEN body.age.v ELSE us[i].age]]

\* UserStore.delete, main.py 180-184: the users that are kept
StoreDelete(us, user_id) ==
    SelectSeq(us, LAMBDA u : u.id # user_id)

\* any(u.email == str(user_data.email) for u in existing_users)
EmailExists(us, v) ==
    \E i \in 1..Len(us) : us[i].email = EmailStr(v)

Response(us, nid, status, error_type, id) ==
    [users |-> us, next_id |-> nid, status |-> status,
     error |-> error_type, id |-> id]

\* create_user, main.py 280-349
CreateUser(us, nid, body) ==
    IF body.kind = "not_json"
    THEN Response(us, nid, 400, "ValidationError", 0)
    ELSE IF body.kind # "object"
    THEN Response(us, nid, 500, "InternalError", 0)
    ELSE IF ~UserCreateOk(body)
    THEN Response(us, nid, 400, "ValidationError", 0)
    ELSE IF EmailExists(us, body.email.v)
    THEN Response(us, nid, 400, "ValidationError", 0)
    ELSE LET c == StoreCreate(us, nid, body) IN
         Response(c.users, c.next_id, 201, "none", c.id)

\* update_user, main.py 386-448
UpdateUser(us, nid, user_id, body) ==
    IF body.kind = "not_json"
    THEN Response(us, nid, 400, "ValidationError", user_id)
    ELSE IF body.kind # "object"
    THEN Response(us, nid, 500, "InternalError", user_id)
    ELSE IF ~UserUpdateOk(body)
    THEN Response(us, nid, 400, "ValidationError", user_id)
    ELSE IF IndexOfId(us, user_id) = 0
    THEN Response(us, nid, 404, "NotFound", user_id)
    ELSE Response(StoreUpdate(us, user_id, body), nid, 200, "none", user_id)

\* delete_user, main.py 451-479
DeleteUser(us, nid, user_id) ==
    IF Len(StoreDelete(us, user_id)) < Len(us)
    THEN Response(StoreDelete(us, user_id), nid, 200, "none", user_id)
    ELSE Response(StoreDelete(us, user_id), nid, 404, "NotFound", user_id)

\* the components the API specification does not run
api_idle_vars == <<breaker_vars, retry_vars, client_vars, notify_vars,
                   race_vars, cart_vars, auth_vars, order_vars>>

\* user_store = UserStore(), main.py 135-137 and 188
ApiInit ==
    /\ BreakerIdle
    /\ RetryIdle
    /\ ClientIdle
    /\ NotifyIdle
    /\ RaceIdle
    /\ CartIdle
    /\ AuthIdle
    /\ OrderIdle
    /\ store_users = <<>>
    /\ next_id = 1
    /\ assigned = {}
    /\ api_last = [op |-> "none", status |-> 0, error |-> "none", id |-> 0,
                   dup |-> FALSE, stored |-> FALSE, before |-> {}]

ApiRecord(op, r, dup) ==
    /\ store_users' = r.users
    /\ next_id' = r.next_id
    /\ assigned' = IF r.status = 201 THEN assigned \cup {r.id} ELSE assigned
    /\ api_last' = [op |-> op, status |-> r.status, error |-> r.error,
                    id |-> r.id, dup |-> dup,
                    stored |-> r.users # store_users,
                    before |-> IF r.status = 201 THEN assigned ELSE {}]

ApiCreateUser ==
    \E body \in Bodies :
        LET r == CreateUser(store_users, next_id, body) IN
        /\ r.status = 201 => next_id <= MaxCreates
        /\ ApiRecord("POST", r,
                     /\ body.email.given
                     /\ EmailExists(store_users, body.email.v))
        /\ UNCHANGED api_idle_vars

ApiUpdateUser ==
    \E user_id \in UserIds, body \in Bodies :
        /\ ApiRecord("PUT", UpdateUser(store_users, next_id, user_id, body),
                     FALSE)
        /\ UNCHANGED api_idle_vars

ApiDeleteUser ==
    \E user_id \in UserIds :
        /\ ApiRecord("DELETE", DeleteUser(store_users, next_id, user_id),
                     FALSE)
        /\ UNCHANGED api_idle_vars

ApiNext ==
    \/ ApiCreateUser
    \/ ApiUpdateUser
    \/ ApiDeleteUser

SpecApi == ApiInit /\ [][ApiNext]_vars

\* C28: no two stored users have the same email address, and a POST whose
\* email equals a stored user's is answered 400 ValidationError and stores
\* nothing.
C28_EmailsUnique ==
    /\ \A i, j \in 1..Len(store_users) :
        i # j => store_users[i].email # store_users[j].email
    /\ (api_last.op = "POST" /\ api_last.dup)
       => /\ api_last.status = 400
          /\ api_last.error = "ValidationError"
          /\ ~api_last.stored

\* C29: a created user's id is greater than every id assigned before it,
\* so no two stored users share an id and an id that was assigned, a
\* deleted user's included, is never given again.
C29_IdsNeverReused ==
    /\ \A i, j \in 1..Len(store_users) :
        i # j => store_users[i].id # store_users[j].id
    /\ \A i \in 1..Len(store_users) : store_users[i].id \in assigned
    /\ \A k \in assigned : k < next_id
    /\ (api_last.op = "POST" /\ api_last.status = 201)
       => /\ api_last.id \notin api_last.before
          /\ \A k \in api_last.before : api_last.id > k

\* a user is created after a user of a smaller id was deleted
C29_Witness ==
    /\ api_last.op = "POST"
    /\ api_last.status = 201
    /\ \E k \in api_last.before :
        /\ k < api_last.id
        /\ \A i \in 1..Len(store_users) : store_users[i].id # k
    /\ \E i \in 1..Len(store_users) : store_users[i].id = api_last.id

-----------------------------------------------------------------------------
(* OrderProcessor (07-logging/solution/main.py).  The items of an order    *)
(* are a dict, here a function from the ordered item ids to quantities.    *)
(*   SpecOrder   process_order, any number of times                        *)

MaxOrders == 2          \* orders are processed while self.orders is shorter

\* the three stocked items and one the inventory does not have
ItemIds == {"item1", "item2", "item3", "item9"}

Quantities == {3, 11}

\* the items arguments: any dict from some of the item ids to quantities
Orders == UNION {[S -> Quantities] : S \in SUBSET ItemIds}

\* OrderProcessor.check_inventory, main.py 277-321
CheckInventory(inv, item_id, quantity) ==
    IF item_id \notin DOMAIN inv THEN FALSE
    ELSE inv[item_id] >= quantity

\* the order record of main.py 367-372
OrderRecord(order_id, its) ==
    [order_id |-> order_id, items |-> its, status |-> "processed"]

\* mutant: each item is reserved as soon as it has been checked
ProcessOrderReservesEarly(inv, ords, order_id, its) ==
    IF \E i \in DOMAIN its : ~CheckInventory(inv, i, its[i])
    THEN [inventory |-> [i \in DOMAIN inv |->
                            IF i \in DOMAIN its
                               /\ CheckInventory(inv, i, its[i])
                            THEN inv[i] - its[i] ELSE inv[i]],
          orders |-> ords, returned |-> FALSE]
    ELSE [inventory |-> [i \in DOMAIN inv |->
                            IF i \in DOMAIN its THEN inv[i] - its[i]
                            ELSE inv[i]],
          orders |-> Append(ords, OrderRecord(order_id, its)),
          returned |-> TRUE]

\* OrderProcessor.process_order, main.py 323-388: every item is checked
\* before any is reserved
ProcessOrder(inv, ords, order_id, its) ==
    IF \E i \in DOMAIN its : ~CheckInventory(inv, i, its[i])
    THEN [inventory |-> inv, orders |-> ords, returned |-> FALSE]
    ELSE [inventory |-> [i \in DOMAIN inv |->
                            IF i \in DOMAIN its THEN inv[i] - its[i]
                            ELSE inv[i]],
          orders |-> Append(ords, OrderRecord(order_id, its)),
          returned |-> TRUE]

\* the components the order specification does not run
order_idle_vars == <<breaker_vars, retry_vars, client_vars, notify_vars,
                     race_vars, cart_vars, auth_vars, api_vars>>

\* OrderProcessor.__init__, main.py 269-275
OrderInit ==
    /\ BreakerIdle
    /\ RetryIdle
    /\ ClientIdle
    /\ NotifyIdle
    /\ RaceIdle
    /\ CartIdle
    /\ AuthIdle
    /\ ApiIdle
    /\ inventory = [item1 |-> 10, item2 |-> 5, item3 |-> 0]
    /\ orders = <<>>
    /\ order_last = [op |-> "none", returned |-> FALSE, items |-> <<>>,
                     pre |-> [inventory |-> <<>>, orders |-> <<>>]]

OrderProcessOrder ==
    \E its \in Orders :
        LET r == ProcessOrder(inventory, orders, "order123", its) IN
        /\ r.returned => Len(orders) < MaxOrders
        /\ inventory' = r.inventory
        /\ orders' = r.orders
        /\ order_last' = [op |-> "process_order", returned |-> r.returned,
                          items |-> its,
                          pre |-> [inventory |-> inventory,
                                   orders |-> orders]]
        /\ UNCHANGED order_idle_vars

OrderNext == OrderProcessOrder

SpecOrder == OrderInit /\ [][OrderNext]_vars

\* every ordered item is stocked, in at least the ordered quantity
Fillable(inv, its) ==
    \A i \in DOMAIN its : i \in DOMAIN inv /\ inv[i] >= its[i]

\* C30: process_order is all-or-nothing: when some ordered item is
\* unknown or short of stock it returns False and inventory and orders
\* are as before; otherwise every ordered item's stock is reduced by its
\* quantity, every other stock is as before, one order record is
\* appended and it returns True.
C30_AllOrNothing ==
    order_last.op = "process_order" =>
        IF Fillable(order_last.pre.inventory, order_last.items)
        THEN /\ order_last.returned
             /\ DOMAIN inventory = DOMAIN order_last.pre.inventory
             /\ \A i \in DOMAIN inventory :
                    inventory[i] = order_last.pre.inventory[i]
                        - (IF i \in DOMAIN order_last.items
                           THEN order_last.items[i] ELSE 0)
             /\ orders = Append(order_last.pre.orders,
                                OrderRecord("order123", order_last.items))
        ELSE /\ ~order_last.returned
             /\ inventory = order_last.pre.inventory
             /\ orders = order_last.pre.orders

\* an order is refused for one item although another of its items was in
\* stock, once an earlier order has been processed
C30_Witness ==
    /\ order_last.op = "process_order"
    /\ ~order_last.returned
    /\ Len(orders) >= 1
    /\ \E i, j \in DOMAIN order_last.items :
        /\ CheckInventory(order_last.pre.inventory, i, order_last.items[i])
        /\ ~CheckInventory(order_last.pre.inventory, j, order_last.items[j])
    /\ inventory = order_last.pre.inventory

=============================================================================
